---- MODULE Spec2Model ----
(***************************************************************************)
(* Model of flask_docker.py: the module-level engine client, the single   *)
(* ContainerManager slot (container, container_id, running) and its        *)
(* start / stop / status methods, run by the request threads of the Flask  *)
(* development server against a container engine that may fail any call    *)
(* and whose containers may exit or be removed behind the manager's back.  *)
(***************************************************************************)
EXTENDS Integers, Sequences, FiniteSets, TLC

(* ---------------------------- bounds ---------------------------------- *)
NumThreads == 2
MaxContainers == 2
MaxClock == 1
IdLen == 14
MaxCalls == 2

(* ------------------------ program constants --------------------------- *)
ShortLen == 12
ContainerPort == 80
HostPort == 8080
WebImages == {"nginx", "httpd"}
DefaultImage == "hello-world"

Threads == 1 .. NumThreads
Images == {DefaultImage, "nginx", "httpd", "nginx:latest"}

VARIABLES
  docker_client,  \* "unset" before init_docker, then "none" | "env" | "sock"
  container,      \* self.container: 0 for None, else the Container object
  container_id,   \* self.container_id: <<>> for None, else the full id
  running,        \* self.running
  attrs,          \* self.container.attrs: the status the tracked Container
                  \* object holds, "" when there is no object
  engine,         \* engine[c]: the engine's state of the c-th container it
                  \* created: "running" | "exited" | "created" | "removed"
  clock,          \* int(time.time())
  pc,             \* pc[t]: the line thread t is at, "idle" between calls
  op,             \* op[t]: the manager method of t's current or last call
  image,          \* image[t]: image_name of t's current or last start()
  ret,            \* ret[t]: what t's last call returned (or raised)
  calls,          \* calls[t]: engine calls of t's current or last call
  pre,            \* pre[t]: the slot as t's current or last call found it
  overlap,        \* overlap[t]: threads whose last call was running when
                  \* t's current or last call began
  served,         \* served[t]: requests thread t has taken so far (counted
                  \* by the threaded server only)
  boot,           \* what init_docker did and returned: done, ret, tried
  names           \* the container names containers.run has been given so far

slot == <<container, container_id, running>>
vars == <<docker_client, container, container_id, running, attrs, engine,
          clock, pc, op, image, ret, calls, pre, overlap, served, boot,
          names>>

(* ------------------------------ values -------------------------------- *)
NoContainer == 0
NoId == <<>>

\* Container.id of the c-th container the engine created
FullId(c) == [k \in 1 .. IdLen |-> IF k = 1 \/ k = IdLen THEN c ELSE 0]

\* (mutation: the id is passed on whole, without the [:12])
Short_whole(id) == id

\* container_id[:12]
Short(id) == SubSeq(id, 1, IF Len(id) < ShortLen THEN Len(id) ELSE ShortLen)

\* f"app_container_{int(time.time())}"
ContainerName(now) == <<"app_container_", now>>

\* (mutation: tagged names of the web servers get the mapping too)
PortsFor_tagged(image_name) ==
  IF image_name \in WebImages \cup {"nginx:latest"}
    THEN {<<ContainerPort, HostPort>>} ELSE {}

\* ports = {'80/tcp': 8080} for the two web servers, else {} (passed as None)
PortsFor(image_name) ==
  IF image_name \in WebImages THEN {<<ContainerPort, HostPort>>} ELSE {}

\* what a call gives back: nothing yet, a (success, message) pair, a status
\* dict, or an exception that leaves the method
NoRet ==
  [kind |-> "none", flag |-> FALSE, text |-> "", id |-> <<>>, exc |-> ""]
Pair(success, message, id, e) ==
  [kind |-> "pair", flag |-> success, text |-> message, id |-> id, exc |-> e]
View(isRunning, id, status) ==
  [kind |-> "view", flag |-> isRunning, text |-> status, id |-> id,
   exc |-> ""]
Raised(e) ==
  [kind |-> "raise", flag |-> FALSE, text |-> "", id |-> <<>>, exc |-> e]

EngineCall(name, outcome) ==
  [call |-> name, out |-> outcome, name |-> <<>>, ports |-> {}, image |-> ""]
RunCall(image_name, cname, ports, outcome) ==
  [call |-> "run", out |-> outcome, name |-> cname, ports |-> ports,
   image |-> image_name]

Snapshot == [container |-> container, container_id |-> container_id,
             running |-> running]

InFlight == {t \in Threads : pc[t] # "idle"}
Present(c) == c \in 1 .. Len(engine) /\ engine[c] # "removed"

(* ------------------------------- Init --------------------------------- *)
Init ==
  /\ docker_client = "unset"
  /\ container = NoContainer
  /\ container_id = NoId
  /\ running = FALSE
  /\ attrs = ""
  /\ engine = <<>>
  /\ clock = 0
  /\ pc = [t \in Threads |-> "idle"]
  /\ op = [t \in Threads |-> "none"]
  /\ image = [t \in Threads |-> ""]
  /\ ret = [t \in Threads |-> NoRet]
  /\ calls = [t \in Threads |-> <<>>]
  /\ pre = [t \in Threads |-> Snapshot]
  /\ overlap = [t \in Threads |-> {}]
  /\ served = [t \in Threads |-> 0]
  /\ boot = [done |-> FALSE, ret |-> FALSE, tried |-> <<>>]
  /\ names = {}

(* ---------------------------- init_docker ----------------------------- *)
\* one step of a connection attempt: creating the client, or its ping()
Attempt(conn, step, ok) ==
  [conn |-> conn, step |-> step, out |-> IF ok THEN "ok" ELSE "error"]

\* the steps of one try block: the client is pinged only once it exists
Connect(conn, made, pinged) ==
  IF made THEN <<Attempt(conn, "create", TRUE), Attempt(conn, "ping", pinged)>>
          ELSE <<Attempt(conn, "create", FALSE)>>

\* (mutation: line 21 forgotten, the socket client is kept although the
\* attempt failed)
init_docker_keeps_failed_client ==
  /\ docker_client = "unset"
  /\ \E envMade \in BOOLEAN, envPing \in BOOLEAN,
        sockMade \in BOOLEAN, sockPing \in BOOLEAN :
       LET envOk == envMade /\ envPing
           sockOk == sockMade /\ sockPing
       IN /\ docker_client' = IF envOk THEN "env" ELSE "sock"
          /\ boot' = [done |-> TRUE,
                      ret |-> envOk \/ sockOk,
                      tried |-> IF envOk
                                  THEN Connect("env", envMade, envPing)
                                  ELSE Connect("env", envMade, envPing)
                                       \o Connect("sock", sockMade, sockPing)]
  /\ UNCHANGED <<container, container_id, running, attrs, engine, clock,
                 pc, op, image, ret, calls, pre, overlap, names>>

\* lines 9-22: docker.from_env() and ping(); on any failure
\* DockerClient(unix socket) and ping(); on any failure None and False
init_docker ==
  /\ docker_client = "unset"
  /\ \E envMade \in BOOLEAN, envPing \in BOOLEAN,
        sockMade \in BOOLEAN, sockPing \in BOOLEAN :
       LET envOk == envMade /\ envPing
           sockOk == sockMade /\ sockPing
       IN /\ docker_client' = IF envOk THEN "env"
                               ELSE IF sockOk THEN "sock" ELSE "none"
          /\ boot' = [done |-> TRUE,
                      ret |-> envOk \/ sockOk,
                      tried |-> IF envOk
                                  THEN Connect("env", envMade, envPing)
                                  ELSE Connect("env", envMade, envPing)
                                       \o Connect("sock", sockMade, sockPing)]
  /\ UNCHANGED <<container, container_id, running, attrs, engine, clock,
                 pc, op, image, ret, calls, pre, overlap, names>>

(* ------------------------- call bookkeeping --------------------------- *)
\* thread t enters manager method m
Enter(t, m, img) ==
  /\ docker_client # "unset"
  /\ pc[t] = "idle"
  /\ op' = [op EXCEPT ![t] = m]
  /\ image' = [image EXCEPT ![t] = img]
  /\ pre' = [pre EXCEPT ![t] = Snapshot]
  /\ overlap' = [u \in Threads |->
                   IF u = t THEN InFlight \ {t} ELSE overlap[u] \ {t}]
  /\ UNCHANGED names

\* thread t returns r
Return(t, r) ==
  /\ ret' = [ret EXCEPT ![t] = r]
  /\ pc' = [pc EXCEPT ![t] = "idle"]

\* thread t goes on to the given line
Goto(t, line) ==
  /\ pc' = [pc EXCEPT ![t] = line]
  /\ ret' = [ret EXCEPT ![t] = NoRet]

Log(t, c) == calls' = [calls EXCEPT ![t] = Append(calls[t], c)]
NoLog(t) == calls' = [calls EXCEPT ![t] = <<>>]

(* --------------------------- the engine ------------------------------- *)
\* containers.run creates a container under a new id
EngineCanCreate == Len(engine) < MaxContainers
EngineCreate(st) == engine' = Append(engine, st)
EngineSet(c, st) == engine' = [engine EXCEPT ![c] = st]

(* ------------------------ ContainerManager.start ---------------------- *)
\* (mutation: start() without the guard of line 31; the ping on the missing
\* client then fails inside the try of line 37)
start_without_client_guard(t, image_name) ==
  /\ Enter(t, "start", image_name)
  /\ NoLog(t)
  /\ IF running
       THEN Return(t, Pair(FALSE, "Container already running", <<>>, ""))
     ELSE IF docker_client = "none"
       THEN Return(t, Pair(FALSE, "Cannot connect to Docker", <<>>, ""))
     ELSE Goto(t, "start_ping")
  /\ UNCHANGED <<docker_client, container, container_id, running, attrs,
                 engine, clock>>

\* (mutation: start() without the "already running" guard of line 34)
start_unguarded(t, image_name) ==
  /\ Enter(t, "start", image_name)
  /\ NoLog(t)
  /\ IF docker_client = "none"
       THEN Return(t, Pair(FALSE, "Docker not available", <<>>, ""))
       ELSE Goto(t, "start_ping")
  /\ UNCHANGED <<docker_client, container, container_id, running, attrs,
                 engine, clock>>

\* lines 30-35: the two guards
start(t, image_name) ==
  /\ Enter(t, "start", image_name)
  /\ NoLog(t)
  /\ IF docker_client = "none"
       THEN Return(t, Pair(FALSE, "Docker not available", <<>>, ""))
     ELSE IF running
       THEN Return(t, Pair(FALSE, "Container already running", <<>>, ""))
     ELSE Goto(t, "start_ping")
  /\ UNCHANGED <<docker_client, container, container_id, running, attrs,
                 engine, clock>>

\* (mutation: a failed ping is swallowed)
start_ping_ignores_failure(t) ==
  /\ pc[t] = "start_ping"
  /\ \E out \in {"ok", "error"} :
       /\ Log(t, EngineCall("ping", out))
       /\ Goto(t, "start_images_get")
  /\ UNCHANGED <<docker_client, container, container_id, running, attrs,
                 engine, clock, op, image, pre, overlap, names>>

\* lines 37-40: docker_client.ping()
start_ping(t) ==
  /\ pc[t] = "start_ping"
  /\ \E out \in {"ok", "error"} :
       /\ Log(t, EngineCall("ping", out))
       /\ IF out = "ok"
            THEN Goto(t, "start_images_get")
            ELSE Return(t, Pair(FALSE, "Cannot connect to Docker", <<>>, ""))
  /\ UNCHANGED <<docker_client, container, container_id, running, attrs,
                 engine, clock, op, image, pre, overlap, names>>

\* lines 42-44: docker_client.images.get(image_name); only ImageNotFound is
\* handled
start_images_get(t) ==
  /\ pc[t] = "start_images_get"
  /\ \E out \in {"ok", "ImageNotFound", "APIError"} :
       /\ Log(t, EngineCall("images.get", out))
       /\ CASE out = "ok" -> Goto(t, "start_run")
            [] out = "ImageNotFound" -> Goto(t, "start_pull")
            [] out = "APIError" -> Return(t, Raised("APIError"))
  /\ UNCHANGED <<docker_client, container, container_id, running, attrs,
                 engine, clock, op, image, pre, overlap, names>>

\* (mutation: a failed pull is swallowed and the run is tried anyway)
start_pull_ignores_failure(t) ==
  /\ pc[t] = "start_pull"
  /\ \E out \in {"ok", "error"} :
       /\ Log(t, EngineCall("images.pull", out))
       /\ Goto(t, "start_run")
  /\ UNCHANGED <<docker_client, container, container_id, running, attrs,
                 engine, clock, op, image, pre, overlap, names>>

\* lines 45-48: docker_client.images.pull(image_name)
start_pull(t) ==
  /\ pc[t] = "start_pull"
  /\ \E out \in {"ok", "error"} :
       /\ Log(t, EngineCall("images.pull", out))
       /\ IF out = "ok"
            THEN Goto(t, "start_run")
            ELSE Return(t, Pair(FALSE, "Failed to pull", <<>>, "error"))
  /\ UNCHANGED <<docker_client, container, container_id, running, attrs,
                 engine, clock, op, image, pre, overlap, names>>

\* lines 50-61 and 68-69: self.container = docker_client.containers.run(...)
\* "ok": created and started; "error": nothing created; "error_created":
\* created but not started, and the exception hides the new container
start_run(t) ==
  /\ pc[t] = "start_run"
  /\ LET cname == ContainerName(clock)
         ports == PortsFor(image[t])
     IN \E out \in {"ok", "error", "error_created"} :
          /\ Log(t, RunCall(image[t], cname, ports, out))
          /\ names' = names \cup {cname}
          /\ CASE out = "ok" ->
                   /\ EngineCanCreate
                   /\ EngineCreate("running")
                   /\ container' = Len(engine) + 1
                   /\ attrs' = "created"
                   /\ Goto(t, "start_set_id")
               [] out = "error_created" ->
                   /\ EngineCanCreate
                   /\ EngineCreate("created")
                   /\ UNCHANGED <<container, attrs>>
                   /\ Return(t, Pair(FALSE, "Start failed", <<>>, "error"))
               [] out = "error" ->
                   /\ UNCHANGED <<engine, attrs, container>>
                   /\ Return(t, Pair(FALSE, "Start failed", <<>>, "error"))
  /\ UNCHANGED <<docker_client, container_id, running, clock, op, image,
                 pre, overlap>>

\* line 63: self.container_id = self.container.id
start_set_id(t) ==
  /\ pc[t] = "start_set_id"
  /\ IF container = NoContainer
       THEN /\ Return(t, Pair(FALSE, "Start failed", <<>>, "AttributeError"))
            /\ UNCHANGED container_id
       ELSE /\ container_id' = FullId(container)
            /\ Goto(t, "start_set_running")
  /\ UNCHANGED <<docker_client, container, running, attrs, engine, clock,
                 op, image, calls, pre, overlap, names>>

\* line 64: self.running = True
start_set_running(t) ==
  /\ pc[t] = "start_set_running"
  /\ running' = TRUE
  /\ Goto(t, "start_return")
  /\ UNCHANGED <<docker_client, container, container_id, attrs, engine,
                 clock, op, image, calls, pre, overlap, names>>

\* line 66: return True, f"Started: {self.container_id[:12]}"
start_return(t) ==
  /\ pc[t] = "start_return"
  /\ IF container_id = NoId
       THEN Return(t, Pair(FALSE, "Start failed", <<>>, "TypeError"))
       ELSE Return(t, Pair(TRUE, "Started", Short(container_id), ""))
  /\ UNCHANGED <<docker_client, container, container_id, running, attrs,
                 engine, clock, op, image, calls, pre, overlap, names>>

(* ------------------------ ContainerManager.stop ----------------------- *)
\* (mutation: stop() without the guard of line 72)
stop_unguarded(t) ==
  /\ Enter(t, "stop", "")
  /\ NoLog(t)
  /\ Goto(t, "stop_stop")
  /\ UNCHANGED <<docker_client, container, container_id, running, attrs,
                 engine, clock>>

\* lines 71-73: the guard
stop(t) ==
  /\ Enter(t, "stop", "")
  /\ NoLog(t)
  /\ IF ~running \/ container = NoContainer
       THEN Return(t, Pair(FALSE, "No container running", <<>>, ""))
       ELSE Goto(t, "stop_stop")
  /\ UNCHANGED <<docker_client, container, container_id, running, attrs,
                 engine, clock>>

\* (mutation: a failed stop is swallowed and the removal is tried anyway)
stop_stop_ignores_failure(t) ==
  /\ pc[t] = "stop_stop"
  /\ IF container = NoContainer
       THEN /\ Return(t, Pair(FALSE, "Stop failed", <<>>, "AttributeError"))
            /\ UNCHANGED <<calls, engine>>
       ELSE \E out \in {"ok", "NotFound", "APIError"} :
              /\ Log(t, EngineCall("stop", out))
              /\ CASE out = "ok" ->
                       /\ Present(container)
                       /\ EngineSet(container, "exited")
                       /\ Goto(t, "stop_remove")
                   [] out = "NotFound" ->
                       /\ ~Present(container)
                       /\ UNCHANGED engine
                       /\ Goto(t, "stop_86")
                   [] out = "APIError" ->
                       /\ UNCHANGED engine
                       /\ Goto(t, "stop_remove")
  /\ UNCHANGED <<docker_client, container, container_id, running, attrs,
                 clock, op, image, pre, overlap, names>>

\* line 76 with the handlers of lines 85 and 90: self.container.stop()
stop_stop(t) ==
  /\ pc[t] = "stop_stop"
  /\ IF container = NoContainer
       THEN /\ Return(t, Pair(FALSE, "Stop failed", <<>>, "AttributeError"))
            /\ UNCHANGED <<calls, engine>>
       ELSE \E out \in {"ok", "NotFound", "APIError"} :
              /\ Log(t, EngineCall("stop", out))
              /\ CASE out = "ok" ->
                       /\ Present(container)
                       /\ EngineSet(container, "exited")
                       /\ Goto(t, "stop_remove")
                   [] out = "NotFound" ->
                       /\ ~Present(container)
                       /\ UNCHANGED engine
                       /\ Goto(t, "stop_86")
                   [] out = "APIError" ->
                       /\ UNCHANGED engine
                       /\ Return(t, Pair(FALSE, "Stop failed", <<>>,
                                         "APIError"))
  /\ UNCHANGED <<docker_client, container, container_id, running, attrs,
                 clock, op, image, pre, overlap, names>>

\* (mutation: NotFound from remove() handled like any other failure)
stop_remove_notfound_fails(t) ==
  /\ pc[t] = "stop_remove"
  /\ IF container = NoContainer
       THEN /\ Return(t, Pair(FALSE, "Stop failed", <<>>, "AttributeError"))
            /\ UNCHANGED <<calls, engine>>
       ELSE \E out \in {"ok", "NotFound", "APIError"} :
              /\ Log(t, EngineCall("remove", out))
              /\ CASE out = "ok" ->
                       /\ Present(container)
                       /\ engine[container] # "running"
                       /\ EngineSet(container, "removed")
                       /\ Goto(t, "stop_79")
                   [] out = "NotFound" ->
                       /\ ~Present(container)
                       /\ UNCHANGED engine
                       /\ Return(t, Pair(FALSE, "Stop failed", <<>>,
                                         "NotFound"))
                   [] out = "APIError" ->
                       /\ UNCHANGED engine
                       /\ Return(t, Pair(FALSE, "Stop failed", <<>>,
                                         "APIError"))
  /\ UNCHANGED <<docker_client, container, container_id, running, attrs,
                 clock, op, image, pre, overlap, names>>

\* line 77 with the handlers of lines 85 and 90: self.container.remove()
stop_remove(t) ==
  /\ pc[t] = "stop_remove"
  /\ IF container = NoContainer
       THEN /\ Return(t, Pair(FALSE, "Stop failed", <<>>, "AttributeError"))
            /\ UNCHANGED <<calls, engine>>
       ELSE \E out \in {"ok", "NotFound", "APIError"} :
              /\ Log(t, EngineCall("remove", out))
              /\ CASE out = "ok" ->
                       /\ Present(container)
                       /\ engine[container] # "running"
                       /\ EngineSet(container, "removed")
                       /\ Goto(t, "stop_79")
                   [] out = "NotFound" ->
                       /\ ~Present(container)
                       /\ UNCHANGED engine
                       /\ Goto(t, "stop_86")
                   [] out = "APIError" ->
                       /\ UNCHANGED engine
                       /\ Return(t, Pair(FALSE, "Stop failed", <<>>,
                                         "APIError"))
  /\ UNCHANGED <<docker_client, container, container_id, running, attrs,
                 clock, op, image, pre, overlap, names>>

\* lines 79 and 86: self.container = None
stop_clear_container(t) ==
  /\ pc[t] \in {"stop_79", "stop_86"}
  /\ container' = NoContainer
  /\ attrs' = ""
  /\ Goto(t, IF pc[t] = "stop_79" THEN "stop_80" ELSE "stop_87")
  /\ UNCHANGED <<docker_client, container_id, running, engine, clock, op,
                 image, calls, pre, overlap, names>>

\* (mutation: stop() forgets to clear container_id)
stop_clear_id_skipped(t) ==
  /\ pc[t] \in {"stop_80", "stop_87"}
  /\ Goto(t, IF pc[t] = "stop_80" THEN "stop_81" ELSE "stop_88")
  /\ UNCHANGED <<docker_client, container, container_id, running, attrs,
                 engine, clock, op, image, calls, pre, overlap, names>>

\* lines 80 and 87: self.container_id = None
stop_clear_id(t) ==
  /\ pc[t] \in {"stop_80", "stop_87"}
  /\ container_id' = NoId
  /\ Goto(t, IF pc[t] = "stop_80" THEN "stop_81" ELSE "stop_88")
  /\ UNCHANGED <<docker_client, container, running, attrs, engine, clock,
                 op, image, calls, pre, overlap, names>>

\* (mutation: stop() forgets to reset running)
stop_clear_running_skipped(t) ==
  /\ pc[t] \in {"stop_81", "stop_88"}
  /\ Return(t, Pair(TRUE, IF pc[t] = "stop_81" THEN "Container stopped"
                                               ELSE "Container removed",
                    <<>>, ""))
  /\ UNCHANGED <<docker_client, container, container_id, running, attrs,
                 engine, clock, op, image, calls, pre, overlap, names>>

\* lines 81-83 and 88-89: self.running = False and the return
stop_clear_running(t) ==
  /\ pc[t] \in {"stop_81", "stop_88"}
  /\ running' = FALSE
  /\ Return(t, Pair(TRUE, IF pc[t] = "stop_81" THEN "Container stopped"
                                               ELSE "Container removed",
                    <<>>, ""))
  /\ UNCHANGED <<docker_client, container, container_id, attrs, engine,
                 clock, op, image, calls, pre, overlap, names>>

(* ----------------------- ContainerManager.status ---------------------- *)
\* (mutation: status() pings the engine before it looks at the slot)
status_probes_engine(t) ==
  /\ Enter(t, "status", "")
  /\ calls' = [calls EXCEPT ![t] = <<EngineCall("ping", "ok")>>]
  /\ IF running /\ container # NoContainer
       THEN Goto(t, "status_reload")
       ELSE Return(t, View(FALSE, <<>>, ""))
  /\ UNCHANGED <<docker_client, container, container_id, running, attrs,
                 engine, clock>>

\* lines 93-94 and 106: the guard
status(t) ==
  /\ Enter(t, "status", "")
  /\ NoLog(t)
  /\ IF running /\ container # NoContainer
       THEN Goto(t, "status_reload")
       ELSE Return(t, View(FALSE, <<>>, ""))
  /\ UNCHANGED <<docker_client, container, container_id, running, attrs,
                 engine, clock>>

\* lines 95-96 and 102: self.container.reload(), any exception caught
status_reload(t) ==
  /\ pc[t] = "status_reload"
  /\ IF container = NoContainer
       THEN /\ Goto(t, "status_103")
            /\ UNCHANGED <<calls, attrs>>
       ELSE \E out \in {"ok", "NotFound", "APIError"} :
              /\ Log(t, EngineCall("reload", out))
              /\ CASE out = "ok" ->
                       /\ Present(container)
                       /\ attrs' = engine[container]
                       /\ Goto(t, "status_97")
                   [] out = "NotFound" ->
                       /\ ~Present(container)
                       /\ UNCHANGED attrs
                       /\ Goto(t, "status_103")
                   [] out = "APIError" ->
                       /\ UNCHANGED attrs
                       /\ Goto(t, "status_103")
  /\ UNCHANGED <<docker_client, container, container_id, running, engine,
                 clock, op, image, pre, overlap, names>>

\* (mutation: a container the engine reports as exited is reconciled away)
status_97_drops_exited(t) ==
  /\ pc[t] = "status_97"
  /\ IF container_id = NoId \/ container = NoContainer \/ attrs = "exited"
       THEN Goto(t, "status_103")
       ELSE Return(t, View(TRUE, Short(container_id), attrs))
  /\ UNCHANGED <<docker_client, container, container_id, running, attrs,
                 engine, clock, op, image, calls, pre, overlap, names>>

\* lines 97-102: the dict built from container_id[:12] and container.status
status_97(t) ==
  /\ pc[t] = "status_97"
  /\ IF container_id = NoId \/ container = NoContainer
       THEN Goto(t, "status_103")
       ELSE Return(t, View(TRUE, Short(container_id), attrs))
  /\ UNCHANGED <<docker_client, container, container_id, running, attrs,
                 engine, clock, op, image, calls, pre, overlap, names>>

\* (mutation: the reconciliation forgets to reset running)
status_103_skipped(t) ==
  /\ pc[t] = "status_103"
  /\ Goto(t, "status_104")
  /\ UNCHANGED <<docker_client, container, container_id, running, attrs,
                 engine, clock, op, image, calls, pre, overlap, names>>

\* line 103: self.running = False
status_103(t) ==
  /\ pc[t] = "status_103"
  /\ running' = FALSE
  /\ Goto(t, "status_104")
  /\ UNCHANGED <<docker_client, container, container_id, attrs, engine,
                 clock, op, image, calls, pre, overlap, names>>

\* line 104: self.container = None
status_104(t) ==
  /\ pc[t] = "status_104"
  /\ container' = NoContainer
  /\ attrs' = ""
  /\ Goto(t, "status_105")
  /\ UNCHANGED <<docker_client, container_id, running, engine, clock, op,
                 image, calls, pre, overlap, names>>

\* lines 105-106: self.container_id = None; return {'running': False}
status_105(t) ==
  /\ pc[t] = "status_105"
  /\ container_id' = NoId
  /\ Return(t, View(FALSE, <<>>, ""))
  /\ UNCHANGED <<docker_client, container, running, attrs, engine, clock,
                 op, image, calls, pre, overlap, names>>

(* ------------------- the world outside the process -------------------- *)
\* a second passes: int(time.time()) grows
Tick ==
  /\ clock < MaxClock
  /\ clock' = clock + 1
  /\ UNCHANGED <<docker_client, container, container_id, running, attrs,
                 engine, pc, op, image, ret, calls, pre, overlap, names>>

\* the container's process ends (hello-world exits at once)
ContainerExits ==
  /\ \E c \in 1 .. Len(engine) :
       /\ engine[c] = "running"
       /\ EngineSet(c, "exited")
  /\ UNCHANGED <<docker_client, container, container_id, running, attrs,
                 clock, pc, op, image, ret, calls, pre, overlap, served, boot,
                 names>>

\* somebody removes the container behind the manager's back (docker rm -f)
RemovedOutOfBand ==
  /\ \E c \in 1 .. Len(engine) :
       /\ Present(c)
       /\ EngineSet(c, "removed")
  /\ UNCHANGED <<docker_client, container, container_id, running, attrs,
                 clock, pc, op, image, ret, calls, pre, overlap, served, boot,
                 names>>

(* --------------------------- specifications --------------------------- *)
\* one step of thread t inside the method it has entered
Step(t) ==
  \/ start_ping(t) \/ start_images_get(t) \/ start_pull(t) \/ start_run(t)
  \/ start_set_id(t) \/ start_set_running(t) \/ start_return(t)
  \/ stop_stop(t) \/ stop_remove(t) \/ stop_clear_container(t)
  \/ stop_clear_id(t) \/ stop_clear_running(t)
  \/ status_reload(t) \/ status_97(t) \/ status_103(t) \/ status_104(t)
  \/ status_105(t)

\* thread t takes a request and enters the manager
Call(t) ==
  \/ \E image_name \in Images : start(t, image_name)
  \/ stop(t)
  \/ status(t)

World == Tick \/ ContainerExits \/ RemovedOutOfBand

\* requests served one at a time, each call run to its end by the one
\* serving thread
MainThread == 1
SerialNext ==
  \/ init_docker /\ UNCHANGED served
  \/ World /\ UNCHANGED <<served, boot>>
  \/ Call(MainThread) /\ UNCHANGED <<served, boot>>
  \/ Step(MainThread) /\ UNCHANGED <<served, boot>>

\* no engine call of a current or last call has failed for a reason other
\* than the image or the container not being there
Healthy ==
  \A t \in Threads : \A i \in DOMAIN calls[t] :
    calls[t][i].out \in {"ok", "ImageNotFound", "NotFound"}

\* the threaded development server in front of a healthy engine that nobody
\* else touches: calls interleave line by line (each thread takes at most
\* MaxCalls requests)
Next ==
  \/ init_docker /\ UNCHANGED served
  \/ \E t \in Threads :
       /\ served[t] < MaxCalls
       /\ Call(t)
       /\ served' = [served EXCEPT ![t] = @ + 1]
       /\ UNCHANGED boot
  \/ \E t \in Threads : Step(t) /\ Healthy' /\ UNCHANGED <<served, boot>>

Spec == Init /\ [][SerialNext]_vars
SpecConc == Init /\ [][Next]_vars

(* --------------------------- vocabulary -------------------------------- *)
\* thread t has returned from method m and has taken no request since
Finished(t, m) == pc[t] = "idle" /\ op[t] = m

IdleSlot == [container |-> NoContainer, container_id |-> NoId,
             running |-> FALSE]
TracksOne(s) == /\ s.running
                /\ s.container # NoContainer
                /\ s.container_id = FullId(s.container)

LastCall(t) == calls[t][Len(calls[t])]
CallNames(t) == [i \in DOMAIN calls[t] |-> calls[t][i].call]
Outcomes(t) == [i \in DOMAIN calls[t] |-> calls[t][i].out]

AlreadyRunning == Pair(FALSE, "Container already running", <<>>, "")
NothingRunning == Pair(FALSE, "No container running", <<>>, "")
NotRunningView == View(FALSE, <<>>, "")

(* ------------------------------ claims -------------------------------- *)
\* C1: a start() that finds the slot Active returns "Container already
\* running", makes no engine call and leaves container, container_id and
\* running as they were; so a start() that succeeds found the slot not
\* running, and of two in a row at most one succeeds.
C1_StartRejectedWhileActive ==
  \A t \in Threads :
    Finished(t, "start") /\ pre[t].running =>
      /\ ret[t] = AlreadyRunning
      /\ calls[t] = <<>>
      /\ Snapshot = pre[t]
C1_Witness ==
  /\ Finished(MainThread, "start")
  /\ pre[MainThread].running
  /\ ret[MainThread] = AlreadyRunning

\* C2: two start() calls that overlap, the manager Idle for at least one of
\* them, the engine answering every call: exactly one returns success, the
\* other "Container already running", and one container is created.
RunsOk(t) == {i \in DOMAIN calls[t] : calls[t][i].call = "run"
                                      /\ calls[t][i].out = "ok"}
Concurrent(t, u) == u \in overlap[t] \/ t \in overlap[u]
C2_ExactlyOneConcurrentStartSucceeds ==
  \A t \in Threads : \A u \in Threads \ {t} :
    ( /\ Finished(t, "start") /\ Finished(u, "start")
      /\ Concurrent(t, u)
      /\ ~pre[t].running
      /\ docker_client # "none"
      /\ Healthy )
    => /\ ret[t].flag
       /\ ret[u] = AlreadyRunning
       /\ Cardinality(RunsOk(t)) + Cardinality(RunsOk(u)) = 1

\* C3: a status() whose inspection of the tracked container fails returns
\* {running: False} and leaves the slot Idle; and a start() that finds the
\* slot Idle, with the engine answering ping, image lookup (or pull) and
\* run, succeeds and tracks the new container.
InspectionFailed(t) ==
  /\ calls[t] # <<>>
  /\ LastCall(t).call = "reload"
  /\ LastCall(t).out # "ok"
C3_ReconcileThenStart ==
  \A t \in Threads :
    /\ Finished(t, "status") /\ InspectionFailed(t) =>
         ret[t] = NotRunningView /\ Snapshot = IdleSlot
    /\ ( /\ Finished(t, "start")
          /\ pre[t] = IdleSlot
          /\ calls[t] # <<>>
          /\ LastCall(t) = RunCall(image[t], LastCall(t).name,
                                    LastCall(t).ports, "ok") )
       => /\ ret[t] = Pair(TRUE, "Started", Short(container_id), "")
          /\ TracksOne(Snapshot)
          /\ container # pre[t].container
\* the second container is tracked after a successful start() while the
\* first, once tracked, is still in the engine: only a status() whose
\* inspection failed can have let go of it
C3_Witness ==
  /\ Finished(MainThread, "start")
  /\ ret[MainThread].flag
  /\ container = 2
  /\ engine[1] \in {"running", "exited"}

\* C4: a stop() to which the engine answers NotFound, on stop() or on the
\* remove() after it, returns success and leaves the slot Idle.
C4_StopNotFoundIsSuccess ==
  \A t \in Threads :
    ( /\ Finished(t, "stop")
      /\ calls[t] # <<>>
      /\ LastCall(t).out = "NotFound" )
    => /\ ret[t] = Pair(TRUE, "Container removed", <<>>, "")
       /\ Snapshot = IdleSlot
C4_Witness ==
  /\ Finished(MainThread, "stop")
  /\ Outcomes(MainThread) = <<"ok", "NotFound">>
  /\ CallNames(MainThread) = <<"stop", "remove">>
  /\ pre[MainThread].running
  /\ Snapshot = IdleSlot

\* C5: after a stop() that succeeds the manager is as it was constructed
\* (no container, no id, not running, no cached status), and a status()
\* on such a manager returns {running: False} without an engine call.
C5_RoundTrip ==
  \A t \in Threads :
    /\ Finished(t, "stop") /\ ret[t].flag =>
         Snapshot = IdleSlot /\ attrs = ""
    /\ Finished(t, "status") /\ pre[t] = IdleSlot =>
         ret[t] = NotRunningView /\ calls[t] = <<>> /\ Snapshot = IdleSlot
C5_Witness ==
  /\ Finished(MainThread, "stop")
  /\ ret[MainThread] = Pair(TRUE, "Container stopped", <<>>, "")
  /\ TracksOne(pre[MainThread])
  /\ pre[MainThread].container = 2
  /\ Snapshot = IdleSlot

\* C6: a stop() that finds the slot Idle returns "No container running",
\* makes no engine call and leaves the slot as it was.
C6_StopWhileIdle ==
  \A t \in Threads :
    Finished(t, "stop") /\ ~pre[t].running =>
      /\ ret[t] = NothingRunning
      /\ calls[t] = <<>>
      /\ Snapshot = pre[t]
C6_Witness ==
  /\ Finished(MainThread, "stop")
  /\ ~pre[MainThread].running
  /\ ret[MainThread] = NothingRunning
  /\ Len(engine) > 0

\* C7: no engine failure leaves start(), stop() or status() as an
\* exception: every call returns a pair or a status view.
C7_NoEngineFailurePropagates ==
  \A t \in Threads : ret[t].kind # "raise"

\* C8: between calls the slot is either all set for one container
\* (running, container and container_id of the same container) or all
\* cleared; in particular running implies container and container_id.
C8_SlotConsistent ==
  InFlight = {} =>
    /\ running => container # NoContainer /\ container_id # NoId
    /\ TracksOne(Snapshot) \/ Snapshot = IdleSlot
C8_Witness ==
  /\ InFlight = {}
  /\ TracksOne(Snapshot)
  /\ Finished(MainThread, "stop")
  /\ ~ret[MainThread].flag

\* C9: a start() that finds the slot Idle and does not succeed leaves it
\* Idle; a failed ping gives "Cannot connect to Docker" after that one
\* engine call; a failed pull gives "Failed to pull" and no run; a failed
\* run gives "Start failed".
C9_FailedStartLeavesIdle ==
  \A t \in Threads :
    Finished(t, "start") /\ pre[t] = IdleSlot =>
      /\ ~ret[t].flag => Snapshot = IdleSlot
      /\ \A i \in DOMAIN calls[t] :
           calls[t][i].out \in {"error", "error_created"} =>
             /\ ~ret[t].flag
             /\ i = Len(calls[t])
             /\ calls[t][i].call = "ping" =>
                  /\ ret[t] = Pair(FALSE, "Cannot connect to Docker", <<>>, "")
                  /\ CallNames(t) = <<"ping">>
             /\ calls[t][i].call = "images.pull" =>
                  /\ ret[t] = Pair(FALSE, "Failed to pull", <<>>, "error")
                  /\ CallNames(t) = <<"ping", "images.get", "images.pull">>
                  /\ calls[t][2].out = "ImageNotFound"
             /\ calls[t][i].call = "run" =>
                  ret[t] = Pair(FALSE, "Start failed", <<>>, "error")
C9_Witness ==
  /\ Finished(MainThread, "start")
  /\ pre[MainThread] = IdleSlot
  /\ ret[MainThread] = Pair(FALSE, "Failed to pull", <<>>, "error")
  /\ Snapshot = IdleSlot

\* C10: a stop() that the engine fails with something other than NotFound
\* returns "Stop failed" and leaves the slot Active with the container it
\* had; remove() is called only after stop() has returned normally.
C10_FailedStopLeavesActive ==
  \A t \in Threads :
    Finished(t, "stop") =>
      /\ calls[t] # <<>> /\ LastCall(t).out = "APIError" =>
           /\ ret[t] = Pair(FALSE, "Stop failed", <<>>, "APIError")
           /\ TracksOne(pre[t])
           /\ Snapshot = pre[t]
      /\ \A i \in DOMAIN calls[t] :
           calls[t][i].call = "remove" =>
             i = 2 /\ calls[t][1] = EngineCall("stop", "ok")
C10_Witness ==
  /\ Finished(MainThread, "stop")
  /\ CallNames(MainThread) = <<"stop", "remove">>
  /\ Outcomes(MainThread) = <<"ok", "APIError">>
  /\ TracksOne(Snapshot)

\* C11: every run spec handed to containers.run maps container port 80 to
\* host port 8080 exactly when the image name is 'nginx' or 'httpd', and
\* has no port mapping for any other name ('nginx:latest' included).
C11_PortsOnlyForWebServers ==
  \A t \in Threads : \A i \in DOMAIN calls[t] :
    calls[t][i].call = "run" =>
      /\ calls[t][i].image = image[t]
      /\ calls[t][i].ports =
           IF image[t] = "nginx" \/ image[t] = "httpd"
             THEN {<<80, 8080>>} ELSE {}
C11_Witness ==
  /\ Finished(MainThread, "start")
  /\ image[MainThread] = "nginx:latest"
  /\ ret[MainThread].flag
  /\ LastCall(MainThread).call = "run"
  /\ LastCall(MainThread).ports = {}

\* C12: the id in the message of a start() that succeeded, and the id in
\* every running view status() returns, are the first 12 characters of the
\* id of the container the run created and the slot tracks; status()
\* returns such a view whenever its inspection succeeded.
First12(id) == [k \in 1 .. 12 |-> id[k]]
C12_IdsAreFirstTwelve ==
  \A t \in Threads :
    /\ Finished(t, "start") /\ ret[t].flag =>
         /\ container = Len(engine)
         /\ container_id = FullId(Len(engine))
         /\ ret[t].id = First12(FullId(Len(engine)))
    /\ Finished(t, "status") /\ ret[t].flag =>
         /\ container = pre[t].container
         /\ ret[t].id = First12(FullId(container))
    /\ Finished(t, "status") /\ calls[t] = <<EngineCall("reload", "ok")>> =>
         ret[t].kind = "view" /\ ret[t].flag
C12_Witness ==
  /\ Finished(MainThread, "status")
  /\ ret[MainThread].flag
  /\ container = 2
  /\ Len(ret[MainThread].id) = 12
  /\ Len(container_id) > 12

\* C13: a status() whose inspection succeeded returns running: True with
\* the status string the engine reports, 'exited' included, and leaves the
\* slot as it was; status() changes the slot only when the inspection
\* failed.
C13_InspectionSuccessMeansRunning ==
  \A t \in Threads :
    Finished(t, "status") =>
      /\ calls[t] = <<EngineCall("reload", "ok")>> =>
           /\ ret[t].flag
           /\ ret[t].text \in {"running", "exited"}
           /\ ret[t].text = attrs
           /\ Snapshot = pre[t]
      /\ Snapshot # pre[t] => InspectionFailed(t)
C13_Witness ==
  /\ Finished(MainThread, "status")
  /\ ret[MainThread] = View(TRUE, First12(FullId(1)), "exited")
  /\ TracksOne(Snapshot)

\* C14: a status() that finds the slot Idle returns exactly
\* {running: False}, makes no engine call and leaves the slot as it was.
C14_StatusWhileIdle ==
  \A t \in Threads :
    Finished(t, "status") /\ ~pre[t].running =>
      /\ ret[t] = NotRunningView
      /\ calls[t] = <<>>
      /\ Snapshot = pre[t]
C14_Witness ==
  /\ Finished(MainThread, "status")
  /\ ~pre[MainThread].running
  /\ ret[MainThread] = NotRunningView
  /\ Len(engine) > 0

\* C15: inside one start() the engine calls come in the order ping, image
\* lookup, pull (only after a lookup that said ImageNotFound), run (only
\* after a ping that succeeded and a lookup or a pull that succeeded).
C15_EngineCallOrder ==
  \A t \in Threads :
    op[t] = "start" =>
      \A i \in DOMAIN calls[t] :
        /\ i = 1 <=> calls[t][i].call = "ping"
        /\ i = 2 <=> calls[t][i].call = "images.get"
        /\ i > 1 => calls[t][1] = EngineCall("ping", "ok")
        /\ calls[t][i].call = "images.pull" =>
             i = 3 /\ calls[t][2] = EngineCall("images.get", "ImageNotFound")
        /\ calls[t][i].call = "run" =>
             \/ i = 3 /\ calls[t][2] = EngineCall("images.get", "ok")
             \/ i = 4 /\ calls[t][3] = EngineCall("images.pull", "ok")
        /\ calls[t][i].call \in {"ping", "images.get", "images.pull", "run"}
C15_Witness ==
  /\ Finished(MainThread, "start")
  /\ CallNames(MainThread) = <<"ping", "images.get", "images.pull", "run">>
  /\ ret[MainThread].flag

\* C16: init_docker tries the environment connection first and the socket
\* connection only after creating or pinging the first one failed; it
\* returns True exactly when the client it keeps has answered a ping, and
\* when both attempts fail it returns False and keeps no client.
Tried(conn, step, out) ==
  \E i \in DOMAIN boot.tried :
    boot.tried[i] = [conn |-> conn, step |-> step, out |-> out]
C16_ConnectionSetup ==
  IF ~boot.done THEN docker_client = "unset" /\ boot.tried = <<>>
  ELSE
    /\ boot.tried[1].conn = "env"
    /\ \A i \in DOMAIN boot.tried : \A j \in DOMAIN boot.tried :
         boot.tried[i].conn = "sock" /\ boot.tried[j].conn = "env" => j < i
    /\ (\E st \in {"create", "ping"} : Tried("sock", st, "ok")
                                      \/ Tried("sock", st, "error"))
         <=> (Tried("env", "create", "error") \/ Tried("env", "ping", "error"))
    /\ \A c \in {"env", "sock"} :
         (Tried(c, "ping", "ok") \/ Tried(c, "ping", "error"))
           => Tried(c, "create", "ok")
    /\ boot.ret <=>
         /\ docker_client \in {"env", "sock"}
         /\ boot.tried[Len(boot.tried)] =
              [conn |-> docker_client, step |-> "ping", out |-> "ok"]
    /\ ~boot.ret => docker_client = "none"
    /\ docker_client = "env" <=> Tried("env", "ping", "ok")
C16_Witness ==
  /\ boot.done
  /\ ~boot.ret
  /\ docker_client = "none"
  /\ Tried("env", "ping", "error")
  /\ Tried("sock", "ping", "error")

\* C17: no container name is handed to containers.run twice: the name of
\* every run attempt differs from the names of all earlier attempts, also
\* when the attempts fall into the same clock second.
C17_NamesNeverReused ==
  [][\A t \in Threads :
       pc[t] = "start_run" /\ Len(calls'[t]) = Len(calls[t]) + 1 =>
         calls'[t][Len(calls'[t])].name \notin names]_vars

\* C18: with calls served one at a time the engine never holds two
\* containers the manager created, and holds none while the slot is Idle
\* between calls.
ManagerContainers == {c \in 1 .. Len(engine) : Present(c)}
C18_AtMostOneContainerInEngine ==
  /\ Cardinality(ManagerContainers) <= 1
  /\ InFlight = {} /\ Snapshot = IdleSlot => ManagerContainers = {}

\* C19: without an engine client every start() returns "Docker not
\* available", makes no engine call and leaves the slot Idle, nothing is
\* ever created, and the client is never set up later; running implies
\* that there is a client.
DockerNotAvailable == Pair(FALSE, "Docker not available", <<>>, "")
C19_NoClientNoContainer ==
  /\ [](running => docker_client \in {"env", "sock"})
  /\ [](docker_client = "none" =>
          /\ Snapshot = IdleSlot
          /\ engine = <<>>
          /\ \A t \in Threads :
               /\ calls[t] = <<>>
               /\ Finished(t, "start") => ret[t] = DockerNotAvailable)
  /\ [][docker_client = "none" => docker_client' = "none"]_vars
C19_Witness ==
  /\ docker_client = "none"
  /\ Finished(MainThread, "start")
  /\ ret[MainThread] = DockerNotAvailable
  /\ clock > 0

\* C20: two stop() calls that overlap, the slot Active for at least one of
\* them, the engine answering every call truthfully: exactly one returns
\* success, the other "No container running", and the slot ends Idle.
C20_ExactlyOneConcurrentStopSucceeds ==
  \A t \in Threads : \A u \in Threads \ {t} :
    ( /\ Finished(t, "stop") /\ Finished(u, "stop")
      /\ Concurrent(t, u)
      /\ pre[t].running
      /\ InFlight = {}
      /\ Healthy )
    => /\ \/ ret[t].flag /\ ret[u] = NothingRunning
          \/ ret[u].flag /\ ret[t] = NothingRunning
       /\ Snapshot = IdleSlot

====
